---------------------------- MODULE Spec2Model ----------------------------
(***************************************************************************)
(* A model of the documentation crawler (crawl_links.py) and of the        *)
(* combine tool (combine_texts.py).                                         *)
(*                                                                         *)
(* Strings are modelled as sequences of one-character strings, so that     *)
(* prefix tests, lengths and slicing are the ones the Python code does.     *)
(* The URL functions of urllib.parse (CPython 3.11) that the code calls     *)
(* are modelled by what they do on the alphabet used here: lower-case       *)
(* letters, ":", "/", "?", "#", "." and "-" (no whitespace, no brackets,    *)
(* no ";", so lstrip, IPv6 checks and params never apply).                  *)
(***************************************************************************)
EXTENDS Integers, Sequences, FiniteSets, TLC

(***************************************************************************)
(* Python string primitives                                                *)
(***************************************************************************)
\* the slices s[:n] and s[n:], which clamp n to the length as Python does
Take(s, n) == IF n >= Len(s) THEN s ELSE SubSeq(s, 1, n)

Drop(s, n) == IF n >= Len(s) THEN <<>> ELSE SubSeq(s, n + 1, Len(s))

StartsWith(s, p) == Len(p) <= Len(s) /\ Take(s, Len(p)) = p

EndsWith(s, p) == Len(p) <= Len(s) /\ Drop(s, Len(s) - Len(p)) = p

\* str.find(c): the 1-based index of the first c in s, 0 when there is none
Find(s, c) ==
    IF \E i \in 1..Len(s) : s[i] = c
    THEN CHOOSE i \in 1..Len(s) : s[i] = c /\ \A j \in 1..(i - 1) : s[j] # c
    ELSE 0

\* the first index >= start of a character of cs, Len(s) + 1 when there is none
FindAnyFrom(s, cs, start) ==
    IF \E i \in start..Len(s) : s[i] \in cs
    THEN CHOOSE i \in start..Len(s) :
             s[i] \in cs /\ \A j \in start..(i - 1) : s[j] \notin cs
    ELSE Len(s) + 1

RECURSIVE RStrip(_, _)
RStrip(s, c) ==
    IF Len(s) > 0 /\ s[Len(s)] = c THEN RStrip(Take(s, Len(s) - 1), c) ELSE s

\* str.split(c): the sequence of pieces between the occurrences of c
RECURSIVE Split(_, _)
Split(s, c) ==
    LET i == Find(s, c)
    IN  IF i = 0 THEN <<s>> ELSE <<Take(s, i - 1)>> \o Split(Drop(s, i), c)

\* c.join(parts)
RECURSIVE Join(_, _)
Join(parts, c) ==
    IF Len(parts) = 0 THEN <<>>
    ELSE IF Len(parts) = 1 THEN parts[1]
    ELSE parts[1] \o <<c>> \o Join(Tail(parts), c)

\* filter(None, parts): the non-empty pieces, in order
RECURSIVE FilterNonEmpty(_)
FilterNonEmpty(parts) ==
    IF Len(parts) = 0 THEN <<>>
    ELSE IF Head(parts) = <<>> THEN FilterNonEmpty(Tail(parts))
    ELSE <<Head(parts)>> \o FilterNonEmpty(Tail(parts))

(***************************************************************************)
(* urllib.parse                                                            *)
(***************************************************************************)
Letters == {"a", "b", "c", "d", "e", "f", "g", "h", "i", "j", "k", "l", "m",
            "n", "o", "p", "q", "r", "s", "t", "u", "v", "w", "x", "y", "z"}

scheme_chars == Letters \cup {"+", "-", "."}

S_http == <<"h", "t", "t", "p">>

S_https == <<"h", "t", "t", "p", "s">>

\* the members of urllib.parse.uses_netloc / uses_relative that the alphabet
\* can spell and the crawler meets
uses_netloc == {<<>>, S_http, S_https}

uses_relative == {<<>>, S_http, S_https}

\* urlsplit, first step: a leading "<scheme>:" is split off when it starts
\* with a letter and holds scheme characters only
HasScheme(url) ==
    /\ Find(url, ":") > 1
    /\ url[1] \in Letters
    /\ \A k \in 1..(Find(url, ":") - 1) : url[k] \in scheme_chars

SchemeOf(url, dflt) ==
    IF HasScheme(url) THEN Take(url, Find(url, ":") - 1) ELSE dflt

AfterScheme(url) == IF HasScheme(url) THEN Drop(url, Find(url, ":")) ELSE url

\* second step (_splitnetloc): after "//" the netloc runs to the first of / ? #
HasNetloc(r) == Len(r) >= 2 /\ r[1] = "/" /\ r[2] = "/"

NetlocOf(r) ==
    IF HasNetloc(r)
    THEN SubSeq(r, 3, FindAnyFrom(r, {"/", "?", "#"}, 3) - 1)
    ELSE <<>>

AfterNetloc(r) ==
    IF HasNetloc(r) THEN Drop(r, FindAnyFrom(r, {"/", "?", "#"}, 3) - 1) ELSE r

\* third and fourth step: split at the first "#", then at the first "?"
BeforeChar(r, c) == IF Find(r, c) > 0 THEN Take(r, Find(r, c) - 1) ELSE r

AfterChar(r, c) == IF Find(r, c) > 0 THEN Drop(r, Find(r, c)) ELSE <<>>

SplitRest(scheme, netloc, r) ==
    [scheme |-> scheme, netloc |-> netloc,
     path |-> BeforeChar(BeforeChar(r, "#"), "?"),
     query |-> AfterChar(BeforeChar(r, "#"), "?"),
     fragment |-> AfterChar(r, "#")]

\* urlsplit(url, scheme=dflt): scheme, netloc, path, query, fragment
urlsplit_default(url, dflt) ==
    SplitRest(SchemeOf(url, dflt), NetlocOf(AfterScheme(url)),
              AfterNetloc(AfterScheme(url)))

urlsplit(url) == urlsplit_default(url, <<>>)

\* urlunsplit, first step: "//" and the netloc are put before the path
WithNetloc(scheme, netloc, path) ==
    IF \/ netloc # <<>>
       \/ (scheme # <<>> /\ scheme \in uses_netloc
             /\ Take(path, 2) # <<"/", "/">>)
    THEN <<"/", "/">> \o netloc
           \o (IF path # <<>> /\ path[1] # "/" THEN <<"/">> \o path ELSE path)
    ELSE path

urlunsplit(c) ==
    (IF c.scheme # <<>> THEN c.scheme \o <<":">> ELSE <<>>)
      \o WithNetloc(c.scheme, c.netloc, c.path)
      \o (IF c.query # <<>> THEN <<"?">> \o c.query ELSE <<>>)
      \o (IF c.fragment # <<>> THEN <<"#">> \o c.fragment ELSE <<>>)

\* the dot-segment loop of urljoin: ".." pops, "." is skipped
RECURSIVE ResolveSegments(_, _)
ResolveSegments(segments, resolved) ==
    IF Len(segments) = 0 THEN resolved
    ELSE IF Head(segments) = <<".", ".">>
    THEN ResolveSegments(Tail(segments), Take(resolved, Len(resolved) - 1))
    ELSE IF Head(segments) = <<".">>
    THEN ResolveSegments(Tail(segments), resolved)
    ELSE ResolveSegments(Tail(segments), Append(resolved, Head(segments)))

\* urljoin: the segments of the base path, without its last one when that
\* is not a directory
BaseParts(bp) == IF bp[Len(bp)] # <<>> THEN Take(bp, Len(bp) - 1) ELSE bp

\* segments[1:-1] = filter(None, segments[1:-1])
FilterInner(segs) ==
    IF Len(segs) <= 2 THEN segs
    ELSE <<segs[1]>> \o FilterNonEmpty(SubSeq(segs, 2, Len(segs) - 1))
           \o <<segs[Len(segs)]>>

Segments(bpath, path) ==
    IF path[1] = "/" THEN Split(path, "/")
    ELSE FilterInner(BaseParts(Split(bpath, "/")) \o Split(path, "/"))

ResolvedPath(segments) ==
    Join(IF segments[Len(segments)] \in {<<".">>, <<".", ".">>}
         THEN Append(ResolveSegments(segments, <<>>), <<>>)
         ELSE ResolveSegments(segments, <<>>), "/")

OrRoot(p) == IF p = <<>> THEN <<"/">> ELSE p

\* urljoin once both URLs are split: b the base, u the reference
JoinParts(b, u, url) ==
    IF u.scheme # b.scheme \/ u.scheme \notin uses_relative THEN url
    ELSE IF u.scheme \in uses_netloc /\ u.netloc # <<>> THEN urlunsplit(u)
    ELSE IF u.path = <<>>
    THEN urlunsplit([scheme |-> u.scheme, netloc |-> b.netloc,
                     path |-> b.path,
                     query |-> IF u.query = <<>> THEN b.query ELSE u.query,
                     fragment |-> u.fragment])
    ELSE urlunsplit([scheme |-> u.scheme, netloc |-> b.netloc,
                     path |-> OrRoot(ResolvedPath(Segments(b.path, u.path))),
                     query |-> u.query, fragment |-> u.fragment])

JoinSplit(b, url) == JoinParts(b, urlsplit_default(url, b.scheme), url)

urljoin(base, url) ==
    IF base = <<>> THEN url
    ELSE IF url = <<>> THEN base
    ELSE JoinSplit(urlsplit(base), url)

(***************************************************************************)
(* crawl_links.py: URL Normalizer and Scope Filter                         *)
(***************************************************************************)
\* lines 78-81: the trailing slashes go when the string is longer than
\* the scheme plus three characters
TrimSlash(normalized, scheme) ==
    IF EndsWith(normalized, <<"/">>) /\ Len(normalized) > Len(scheme) + 3
    THEN RStrip(normalized, "/")
    ELSE normalized

\* lines 75-77
Cleaned(parsed) == [parsed EXCEPT !.fragment = <<>>]

normalize_url(url) ==
    TrimSlash(urlunsplit(Cleaned(urlsplit(url))), urlsplit(url).scheme)

\* line 95: an exclude entry gets a leading "/" when it lacks one
WithSlash(raw) == IF StartsWith(raw, <<"/">>) THEN raw ELSE <<"/">> \o raw

\* the loop over excludes of is_allowed: FALSE at the first entry that matches
RECURSIVE NotExcluded(_, _)
NotExcluded(relative_path, excl) ==
    IF Len(excl) = 0 THEN TRUE
    ELSE IF StartsWith(relative_path, WithSlash(Head(excl))) THEN FALSE
    ELSE NotExcluded(relative_path, Tail(excl))

RelativePathWhole(url_parts, base_parts) == url_parts.path

\* line 93
RelativePath(url_parts, base_parts) ==
    Drop(url_parts.path, Len(base_parts.path))

is_allowed(url, base, excl) ==
    IF ~StartsWith(url, base) THEN FALSE
    ELSE NotExcluded(RelativePath(urlsplit(url), urlsplit(base)), excl)


(***************************************************************************)
(* The inputs of a crawl run and the site it crawls                        *)
(***************************************************************************)
\* the site has at most MaxUrls distinct canonical in-scope URLs
MaxUrls == 4

\* a page holds at most MaxLinks distinct anchors
MaxLinks == 3

\* "http://x/d/": the base_prefix argument, as typed on the command line
BasePrefixArg == <<"h","t","t","p",":","/","/","x","/","d","/">>

\* "http://x/d/", "http://x/d/r/" and "http://y/d": the start_url arguments
StartUrls == { <<"h","t","t","p",":","/","/","x","/","d","/">>,
               <<"h","t","t","p",":","/","/","x","/","d","/","r","/">>,
               <<"h","t","t","p",":","/","/","y","/","d">> }

\* --exclude r
ExcludeLists == { << <<"r">> >> }

\* the raw href values a page may hold:
\* "a", "/d-i", "/d/b/#t", "/d/r/z" and "//y/d"
HrefPool == { <<"a">>,
              <<"/","d","-","i">>,
              <<"/","d","/","b","/","#","t">>,
              <<"/","d","/","r","/","z">>,
              <<"/","/","y","/","d">> }

PageHrefSets == {H \in SUBSET HrefPool : Cardinality(H) <= MaxLinks}

\* what the output file may hold before the run: nothing, or an old line "x"
OldFiles == { <<>>, << <<"x">> >> }

\* what can happen to one request: a page with a non-empty body, a page with
\* an empty body, a refused or timed-out connection (urlopen wraps both in
\* URLError), an HTTP error status, and the timeout expiring while the
\* response is read (socket.timeout, i.e. TimeoutError, raised by read())
NetEvents == {"ok", "empty_body", "connect_error", "connect_timeout",
              "http_status", "read_timeout"}

ExceptionOf(ev) ==
    CASE ev \in {"connect_error", "connect_timeout"} -> "URLError"
      [] ev = "http_status" -> "HTTPError"
      [] ev = "read_timeout" -> "TimeoutError"
      [] OTHER -> "none"

\* the except clause of fetch_html
FetchCaught == {"URLError", "HTTPError", "UnicodeDecodeError"}

\* fetch_html: "html" (a non-empty body), "empty" (the empty string) or
\* "raised" (an exception the except clause does not name)
fetch_html(ev) ==
    IF ExceptionOf(ev) = "none"
    THEN (IF ev = "ok" THEN "html" ELSE "empty")
    ELSE IF ExceptionOf(ev) \in FetchCaught THEN "empty"
    ELSE "raised"

(***************************************************************************)
(* State.  The crawler, the two pure functions checked on their own and    *)
(* the combine tool are separate programs: each specification below runs    *)
(* one of them and leaves the variables of the others at rest.              *)
(***************************************************************************)
VARIABLES
    n_url, n_once, n_twice, n_pc        \* normalize_url applied once, twice

normVars == <<n_url, n_once, n_twice, n_pc>>

VARIABLES
    a_url, a_base, a_excl, a_res, a_pc  \* one call of is_allowed

allowVars == <<a_url, a_base, a_excl, a_res, a_pc>>

VARIABLES
    c_input_dir, c_output_file,         \* argv of combine_texts.py
    c_disk,                             \* the files: absolute path -> content
    c_pc,
    c_todo,                             \* the paths gather_text_files yields
    c_out,                              \* what was written to destination
    c_count

combineVars == <<c_input_dir, c_output_file, c_disk, c_pc, c_todo, c_out,
                 c_count>>

VARIABLES
    x_exists, x_lines,                  \* the link file of extract_text.py
    x_pc,
    x_rest,                             \* the lines read_links has yet to read
    x_url,
    x_total, x_successes,
    x_files,                            \* the output directory: path -> text
    x_status,
    x_attempted                         \* history: the URLs fetched

extractVars == <<x_exists, x_lines, x_pc, x_rest, x_url, x_total,
                 x_successes, x_files, x_status, x_attempted>>

otherVars == <<normVars, allowVars, combineVars, extractVars>>

NormIdle == n_url = <<>> /\ n_once = <<>> /\ n_twice = <<>> /\ n_pc = "idle"

AllowIdle ==
    a_url = <<>> /\ a_base = <<>> /\ a_excl = <<>> /\ a_res = FALSE
      /\ a_pc = "idle"

CombineIdle ==
    /\ c_input_dir = <<>> /\ c_output_file = <<>> /\ c_disk = <<>>
    /\ c_pc = "idle" /\ c_todo = <<>> /\ c_out = <<>> /\ c_count = 0

ExtractIdle ==
    /\ x_exists = FALSE /\ x_lines = <<>> /\ x_pc = "idle" /\ x_rest = <<>>
    /\ x_url = <<>> /\ x_total = 0 /\ x_successes = 0 /\ x_files = <<>>
    /\ x_status = "idle" /\ x_attempted = <<>>

VARIABLES
    start_url, base_prefix, excludes,   \* argv
    pc,                                 \* the position of the one thread
    file,                               \* the lines of the output file on disk
    buffer,                             \* lines written and not yet flushed
    normalized_base, normalized_start,
    queue, visited, discovered,         \* the locals of crawl()
    current, hrefs, absolute,
    status,                             \* "running", or how the process ended
    collected,                          \* the count main() prints, -1 before
    fetched,                            \* history: one record per fetch
    sleeps,                             \* history: Len(fetched) at each sleep
    edges,                              \* history: links that passed
    found                               \* history: discovery order

crawlVars == <<start_url, base_prefix, excludes, pc, file, buffer,
               normalized_base, normalized_start, queue, visited, discovered,
               current, hrefs, absolute, status, collected, fetched, sleeps,
               edges, found>>

\* main line 191 and crawl line 108
NormalizedBase(base_arg) == normalize_url(RStrip(base_arg, "/"))

\* crawl lines 110-112
NormalizedStart(nb, start) == normalize_url(urljoin(nb \o <<"/">>, start))

\* lines 144-145: the canonical absolute URL of an href found on page cur
ResolveHref(cur, href) == normalize_url(urljoin(cur \o <<"/">>, href))

\* line 146: the scheme check
HasHttpScheme(url) ==
    \/ StartsWith(url, S_http \o <<":", "/", "/">>)
    \/ StartsWith(url, S_https \o <<":", "/", "/">>)

\* lines 146-149: the scheme check and the Scope Filter
Admitted(url, nb, excl) == HasHttpScheme(url) /\ is_allowed(url, nb, excl)

\* The URL functions are pure, so their values on the URLs a run can meet
\* are tabulated once: the URLs reachable from a start URL by following at
\* most n hrefs of the pool, whatever the filters say.
RECURSIVE UrlsWithin(_)
UrlsWithin(n) ==
    IF n = 0
    THEN {NormalizedStart(NormalizedBase(BasePrefixArg), s) : s \in StartUrls}
    ELSE UrlsWithin(n - 1)
           \cup {ResolveHref(u, h) : u \in UrlsWithin(n - 1), h \in HrefPool}

ResolveTable ==
    [u \in UrlsWithin(MaxUrls - 1) |-> [h \in HrefPool |-> ResolveHref(u, h)]]

AdmittedTable ==
    [excl \in ExcludeLists |->
        {u \in UrlsWithin(MaxUrls) :
            Admitted(u, NormalizedBase(BasePrefixArg), excl)}]

Resolve(cur, href) == ResolveTable[cur][href]

\* a crawler without the scheme check and the Scope Filter of lines 146-149
PassesAlways(url) == TRUE

PassesFilters(url) == url \in AdmittedTable[excludes]

\* a crawler that forgets the Discovered-membership check
IsNewAlways(url, disc) == TRUE

\* line 150
IsNew(url, disc) == url \notin disc

CrawlInit ==
    /\ start_url \in StartUrls
    /\ base_prefix = BasePrefixArg
    /\ excludes \in ExcludeLists
    /\ file \in OldFiles
    /\ pc = "main"
    /\ buffer = <<>>
    /\ normalized_base = <<>>
    /\ normalized_start = <<>>
    /\ queue = <<>>
    /\ visited = {}
    /\ discovered = {}
    /\ current = <<>>
    /\ hrefs = {}
    /\ absolute = <<>>
    /\ status = "running"
    /\ collected = -1
    /\ fetched = <<>>
    /\ sleeps = <<>>
    /\ edges = {}
    /\ found = <<>>

\* main, line 188: open(args.output, "w") truncates the file
MainOpen ==
    /\ pc = "main"
    /\ file' = <<>>
    /\ buffer' = <<>>
    /\ pc' = "crawl"
    /\ UNCHANGED <<start_url, base_prefix, excludes, normalized_base,
                   normalized_start, queue, visited, discovered, current,
                   hrefs, absolute, status, collected, fetched, sleeps,
                   edges, found,
                   otherVars>>

\* lines 108-112 on the arguments a run can have, tabulated once
NormalizedBaseOf == [b \in {BasePrefixArg} |-> NormalizedBase(b)]

NormalizedStartOf ==
    [s \in StartUrls |-> NormalizedStart(NormalizedBase(BasePrefixArg), s)]

\* a crawler that forgets the scope check of the start URL
ScopeCheckSkipped(ns, nb, excl) == "L118"

\* lines 113-116: a start URL the Scope Filter rejects raises ValueError
ScopeCheck(ns, nb, excl) ==
    IF is_allowed(ns, nb, excl) THEN "L118" ELSE "ValueError"

\* main line 191 and crawl lines 104-116: normalise, then the scope check
CrawlBegin ==
    /\ pc = "crawl"
    /\ LET nb == NormalizedBaseOf[base_prefix]
           ns == NormalizedStartOf[start_url]
       IN  /\ normalized_base' = nb
           /\ normalized_start' = ns
           /\ pc' = ScopeCheck(ns, nb, excludes)
    /\ UNCHANGED <<start_url, base_prefix, excludes, file, buffer, queue,
                   visited, discovered, current, hrefs, absolute, status,
                   collected, fetched, sleeps, edges, found,
                   otherVars>>

\* main lines 188, 195-197: the with block closes the file, the ValueError
\* is caught and main returns 1
MainExcept ==
    /\ pc = "ValueError"
    /\ file' = file \o buffer
    /\ buffer' = <<>>
    /\ status' = "exit1"
    /\ pc' = "exited"
    /\ UNCHANGED <<start_url, base_prefix, excludes, normalized_base,
                   normalized_start, queue, visited, discovered, current,
                   hrefs, absolute, collected, fetched, sleeps, edges, found,
                   otherVars>>

\* line 118
SeedEnqueue ==
    /\ pc = "L118"
    /\ queue' = Append(queue, normalized_start)
    /\ pc' = "L119"
    /\ UNCHANGED <<start_url, base_prefix, excludes, file, buffer,
                   normalized_base, normalized_start, visited, discovered,
                   current, hrefs, absolute, status, collected, fetched,
                   sleeps, edges, found,
                   otherVars>>

\* a crawler that does not record the seed in discovered
SeedDiscoverSkipped ==
    /\ pc = "L119"
    /\ pc' = "L120"
    /\ UNCHANGED <<start_url, base_prefix, excludes, file, buffer,
                   normalized_base, normalized_start, queue, visited,
                   discovered, current, hrefs, absolute, status, collected,
                   fetched, sleeps, edges, found, otherVars>>

\* line 119
SeedDiscover ==
    /\ pc = "L119"
    /\ discovered' = discovered \cup {normalized_start}
    /\ found' = Append(found, normalized_start)
    /\ pc' = "L120"
    /\ UNCHANGED <<start_url, base_prefix, excludes, file, buffer,
                   normalized_base, normalized_start, queue, visited, current,
                   hrefs, absolute, status, collected, fetched, sleeps, edges,
                   otherVars>>

\* line 120
SeedWrite ==
    /\ pc = "L120"
    /\ buffer' = Append(buffer, normalized_start)
    /\ pc' = "L121"
    /\ UNCHANGED <<start_url, base_prefix, excludes, file, normalized_base,
                   normalized_start, queue, visited, discovered, current,
                   hrefs, absolute, status, collected, fetched, sleeps,
                   edges, found,
                   otherVars>>

\* lines 121-122
SeedFlush ==
    /\ pc = "L121"
    /\ file' = file \o buffer
    /\ buffer' = <<>>
    /\ pc' = "loop"
    /\ UNCHANGED <<start_url, base_prefix, excludes, normalized_base,
                   normalized_start, queue, visited, discovered, current,
                   hrefs, absolute, status, collected, fetched, sleeps,
                   edges, found,
                   otherVars>>

\* a crawler that pops the newest URL (queue.pop() for queue.popleft())
DequeueLast(q) == [head |-> q[Len(q)], rest |-> SubSeq(q, 1, Len(q) - 1)]

\* line 125: queue.popleft()
DequeueOp(q) == [head |-> Head(q), rest |-> Tail(q)]

\* lines 124-128: pop the head; skip it when visited, else mark it visited

Dequeue ==
    /\ pc = "loop"
    /\ queue # <<>>
    /\ LET d == DequeueOp(queue)
       IN  /\ current' = d.head
           /\ queue' = d.rest
           /\ IF d.head \in visited
              THEN pc' = "loop" /\ visited' = visited
              ELSE pc' = "L136" /\ visited' = visited \cup {d.head}
    /\ UNCHANGED <<start_url, base_prefix, excludes, file, buffer,
                   normalized_base, normalized_start, discovered, hrefs,
                   absolute, status, collected, fetched, sleeps, edges, found,
                   otherVars>>

\* lines 136-141: fetch the page; the empty string continues the loop, an
\* exception fetch_html does not catch leaves crawl()
Fetch ==
    /\ pc = "L136"
    /\ \E ev \in NetEvents :
         LET res == fetch_html(ev)
         IN  /\ fetched' = Append(fetched, [url |-> current, res |-> res,
                                            at |-> Len(file),
                                            pending |-> queue])
             /\ IF res = "html"
                THEN LET target == [h \in HrefPool |-> Resolve(current, h)]
                         inScope == {h \in HrefPool : PassesFilters(target[h])}
                     IN  \E H \in PageHrefSets :
                           /\ Cardinality(discovered \cup
                                {target[h] : h \in H \cap inScope}) <= MaxUrls
                           /\ hrefs' = H
                ELSE hrefs' = {}
             /\ pc' = CASE res = "html" -> "L143"
                        [] res = "empty" -> "loop"
                        [] OTHER -> "TimeoutError"
    /\ UNCHANGED <<start_url, base_prefix, excludes, file, buffer,
                   normalized_base, normalized_start, queue, visited,
                   discovered, current, absolute, status, collected, sleeps,
                   edges, found,
                   otherVars>>

\* lines 143-150: take the next href of the set, resolve and filter it
HrefStep ==
    /\ pc = "L143"
    /\ \E href \in hrefs :
         LET a == Resolve(current, href)
             ok == PassesFilters(a)
         IN  /\ hrefs' = hrefs \ {href}
             /\ absolute' = a
             /\ edges' = IF ok THEN edges \cup {<<current, a>>} ELSE edges
             /\ pc' = IF ok /\ IsNew(a, discovered) THEN "L151" ELSE "L143"
    /\ UNCHANGED <<start_url, base_prefix, excludes, file, buffer,
                   normalized_base, normalized_start, queue, visited,
                   discovered, current, status, collected, fetched, sleeps,
                   found,
                   otherVars>>

\* a crawler that enqueues a link without recording it in discovered
HrefDiscoverSkipped ==
    /\ pc = "L151"
    /\ pc' = "L152"
    /\ UNCHANGED <<start_url, base_prefix, excludes, file, buffer,
                   normalized_base, normalized_start, queue, visited,
                   discovered, current, hrefs, absolute, status, collected,
                   fetched, sleeps, edges, found, otherVars>>

\* line 151
HrefDiscover ==
    /\ pc = "L151"
    /\ discovered' = discovered \cup {absolute}
    /\ found' = Append(found, absolute)
    /\ pc' = "L152"
    /\ UNCHANGED <<start_url, base_prefix, excludes, file, buffer,
                   normalized_base, normalized_start, queue, visited, current,
                   hrefs, absolute, status, collected, fetched, sleeps, edges,
                   otherVars>>

\* a crawler that puts a new link at the front (appendleft for append)
HrefEnqueueFront ==
    /\ pc = "L152"
    /\ queue' = <<absolute>> \o queue
    /\ pc' = "L153"
    /\ UNCHANGED <<start_url, base_prefix, excludes, file, buffer,
                   normalized_base, normalized_start, visited, discovered,
                   current, hrefs, absolute, status, collected, fetched,
                   sleeps, edges, found, otherVars>>

\* line 152
HrefEnqueue ==
    /\ pc = "L152"
    /\ queue' = Append(queue, absolute)
    /\ pc' = "L153"
    /\ UNCHANGED <<start_url, base_prefix, excludes, file, buffer,
                   normalized_base, normalized_start, visited, discovered,
                   current, hrefs, absolute, status, collected, fetched,
                   sleeps, edges, found,
                   otherVars>>

\* line 153
HrefWrite ==
    /\ pc = "L153"
    /\ buffer' = Append(buffer, absolute)
    /\ pc' = "L154"
    /\ UNCHANGED <<start_url, base_prefix, excludes, file, normalized_base,
                   normalized_start, queue, visited, discovered, current,
                   hrefs, absolute, status, collected, fetched, sleeps,
                   edges, found,
                   otherVars>>

\* a crawler that leaves the flush of line 154 out
HrefNoFlush ==
    /\ pc = "L154"
    /\ pc' = "L143"
    /\ UNCHANGED <<start_url, base_prefix, excludes, file, buffer,
                   normalized_base, normalized_start, queue, visited,
                   discovered, current, hrefs, absolute, status, collected,
                   fetched, sleeps, edges, found,
                   otherVars>>

\* line 154
HrefFlush ==
    /\ pc = "L154"
    /\ file' = file \o buffer
    /\ buffer' = <<>>
    /\ pc' = "L143"
    /\ UNCHANGED <<start_url, base_prefix, excludes, normalized_base,
                   normalized_start, queue, visited, discovered, current,
                   hrefs, absolute, status, collected, fetched, sleeps,
                   edges, found,
                   otherVars>>

\* line 155: the hrefs of the page are exhausted, sleep
Sleep ==
    /\ pc = "L143"
    /\ hrefs = {}
    /\ sleeps' = Append(sleeps, Len(fetched))
    /\ pc' = "loop"
    /\ UNCHANGED <<start_url, base_prefix, excludes, file, buffer,
                   normalized_base, normalized_start, queue, visited,
                   discovered, current, hrefs, absolute, status, collected,
                   fetched, edges, found,
                   otherVars>>

\* lines 124, 157 and 188, 199-200: the queue is empty, crawl returns
\* discovered, the file is closed, main prints the count and returns 0
Return ==
    /\ pc = "loop"
    /\ queue = <<>>
    /\ file' = file \o buffer
    /\ buffer' = <<>>
    /\ collected' = Cardinality(discovered)
    /\ status' = "exit0"
    /\ pc' = "exited"
    /\ UNCHANGED <<start_url, base_prefix, excludes, normalized_base,
                   normalized_start, queue, visited, discovered, current,
                   hrefs, absolute, fetched, sleeps, edges, found,
                   otherVars>>

\* the exception leaves crawl() and main(): the with block closes the file,
\* "except ValueError" does not match, the interpreter prints a traceback
Uncaught ==
    /\ pc = "TimeoutError"
    /\ file' = file \o buffer
    /\ buffer' = <<>>
    /\ status' = "traceback"
    /\ pc' = "exited"
    /\ UNCHANGED <<start_url, base_prefix, excludes, normalized_base,
                   normalized_start, queue, visited, discovered, current,
                   hrefs, absolute, collected, fetched, sleeps, edges, found,
                   otherVars>>

CrawlIdle ==
    /\ start_url = <<>> /\ base_prefix = <<>> /\ excludes = <<>>
    /\ pc = "idle" /\ file = <<>> /\ buffer = <<>>
    /\ normalized_base = <<>> /\ normalized_start = <<>>
    /\ queue = <<>> /\ visited = {} /\ discovered = {}
    /\ current = <<>> /\ hrefs = {} /\ absolute = <<>>
    /\ status = "idle" /\ collected = -1
    /\ fetched = <<>> /\ sleeps = <<>> /\ edges = {} /\ found = <<>>

vars == <<crawlVars, otherVars>>

Init == CrawlInit /\ NormIdle /\ AllowIdle /\ CombineIdle /\ ExtractIdle

Next ==
    \/ MainOpen \/ CrawlBegin \/ MainExcept
    \/ SeedEnqueue \/ SeedDiscover \/ SeedWrite \/ SeedFlush
    \/ Dequeue \/ Fetch
    \/ HrefStep \/ HrefDiscover \/ HrefEnqueue \/ HrefWrite \/ HrefFlush
    \/ Sleep \/ Return \/ Uncaught

Spec == Init /\ [][Next]_vars

\* The crawler is one sequential process: while a statement remains to be
\* executed, it is executed.
FairSpec == Init /\ [][Next]_vars /\ WF_vars(Next)

(***************************************************************************)
(* normalize_url on its own: the function applied to a URL and then to     *)
(* its own result.  The inputs are a prefix (nothing, a scheme, a scheme    *)
(* and host, a host alone) followed by every tail of at most MaxTail        *)
(* characters over "/", a letter, "?" and "#".                              *)
(***************************************************************************)
MaxTail == 4

TailChars == {"/", "a", "?", "#"}

UrlPrefixes == {<<>>, S_http \o <<":">>, S_http \o <<":", "/", "/", "x">>,
                <<"/", "/", "x">>, <<"h", ":">>}

RECURSIVE Tails(_)
Tails(n) ==
    IF n = 0 THEN {<<>>}
    ELSE Tails(n - 1)
           \cup {t \o <<c>> : t \in {s \in Tails(n - 1) : Len(s) = n - 1},
                              c \in TailChars}

NormInputs == {p \o t : p \in UrlPrefixes, t \in Tails(MaxTail)}

NormInit ==
    /\ n_url \in NormInputs
    /\ n_once = <<>> /\ n_twice = <<>>
    /\ n_pc = "start"

NormalizeOnce ==
    /\ n_pc = "start"
    /\ n_once' = normalize_url(n_url)
    /\ n_pc' = "once"
    /\ UNCHANGED <<n_url, n_twice, crawlVars, allowVars,
                   combineVars, extractVars>>

NormalizeTwice ==
    /\ n_pc = "once"
    /\ n_twice' = normalize_url(n_once)
    /\ n_pc' = "twice"
    /\ UNCHANGED <<n_url, n_once, crawlVars, allowVars,
                   combineVars, extractVars>>

NormNext == NormalizeOnce \/ NormalizeTwice

InitNorm ==
    NormInit /\ CrawlIdle /\ AllowIdle /\ CombineIdle /\ ExtractIdle

SpecNorm == InitNorm /\ [][NormNext]_vars

(***************************************************************************)
(* is_allowed on its own: one call on a URL, a base prefix and a list of   *)
(* excluded prefixes.                                                       *)
(***************************************************************************)
Str_xd == S_http \o <<":", "/", "/", "x", "/", "d">>

AllowUrls ==
    {Str_xd, Str_xd \o <<"/">>, Str_xd \o <<"/", "g">>,
     Str_xd \o <<"/", "r">>, Str_xd \o <<"/", "r", "/", "z">>,
     Str_xd \o <<"/", "r", "g">>, Str_xd \o <<"/", "g", "/", "r">>,
     Str_xd \o <<"-", "i">>, Str_xd \o <<"?", "/", "r">>,
     S_http \o <<":", "/", "/", "x", "/", "b">>,
     S_http \o <<":", "/", "/", "x">>,
     S_http \o <<":", "/", "/", "y", "/", "d", "/", "g">>,
     S_https \o <<":", "/", "/", "x", "/", "d", "/", "g">>}

AllowBases ==
    {Str_xd, Str_xd \o <<"/", "g">>, S_http \o <<":", "/", "/", "x">>,
     S_http \o <<":", "/", "/", "x", "/", "a">>}

AllowExcludes ==
    {<<>>, << <<"/", "r">> >>, << <<"r">> >>, << <<"r", "/">> >>,
     << <<"/", "g">>, <<"/", "r", "/", "z">> >>, << <<>> >>}

AllowInit ==
    /\ a_url \in AllowUrls
    /\ a_base \in AllowBases
    /\ a_excl \in AllowExcludes
    /\ a_res = FALSE
    /\ a_pc = "start"

CheckAllowed ==
    /\ a_pc = "start"
    /\ a_res' = is_allowed(a_url, a_base, a_excl)
    /\ a_pc' = "done"
    /\ UNCHANGED <<a_url, a_base, a_excl, crawlVars, normVars,
                   combineVars, extractVars>>

AllowNext == CheckAllowed

InitAllowed ==
    AllowInit /\ CrawlIdle /\ NormIdle /\ CombineIdle /\ ExtractIdle

SpecAllowed == InitAllowed /\ [][AllowNext]_vars

(***************************************************************************)
(* combine_texts.py.  A path is the tuple of its parts, as pathlib keeps   *)
(* it: ("pages", "all.txt") is relative, ("/", "w", "pages", "all.txt") is  *)
(* absolute, and the two are different Path values although, with the      *)
(* working directory /w, they name the same file.                           *)
(***************************************************************************)
Cwd == <<"/", "w">>

PagesDir == <<"/", "w", "pages">>

\* how the operating system finds the file a path names
OnDisk(path) == IF path # <<>> /\ path[1] = "/" THEN path ELSE Cwd \o path

InputDirs == {<<"pages">>, PagesDir, <<"nodir">>}

OutputFiles ==
    {<<"all.txt">>, <<"pages", "all.txt">>, PagesDir \o <<"all.txt">>,
     <<"pages", "sub", "c.txt">>}

\* the files that may lie under /w/pages before the run, with their content
Stored ==
    (PagesDir \o <<"a.txt">> :> "X")
      @@ (PagesDir \o <<"sub", "b.txt">> :> "Y")
      @@ (PagesDir \o <<"n.md">> :> "Z")
      @@ (PagesDir \o <<"all.txt">> :> "OLD")

Disks == {[f \in F |-> Stored[f]] : F \in SUBSET DOMAIN Stored}

\* the pattern "*.txt" of rglob, on the file names of the model
TxtNames == {"a.txt", "all.txt", "b.txt", "c.txt"}

\* the order of str on the names of the model
NameOrder ==
    <<"/", "a.txt", "all.txt", "b.txt", "c.txt", "n.md", "pages", "sub", "w">>

NameRank(name) == CHOOSE i \in 1..Len(NameOrder) : NameOrder[i] = name

\* PurePath.__lt__: the parts compared as lists of strings
RECURSIVE PathLess(_, _)
PathLess(p, q) ==
    IF p = <<>> THEN q # <<>>
    ELSE IF q = <<>> THEN FALSE
    ELSE IF Head(p) = Head(q) THEN PathLess(Tail(p), Tail(q))
    ELSE NameRank(Head(p)) < NameRank(Head(q))

RECURSIVE SortPaths(_)
SortPaths(S) ==
    IF S = {} THEN <<>>
    ELSE LET least == CHOOSE x \in S : \A y \in S \ {x} : PathLess(x, y)
         IN  <<least>> \o SortPaths(S \ {least})

\* root.rglob("*.txt"): root joined with the relative path of every
\* matching file below the directory root names
rglob(root, disk) ==
    {root \o Drop(f, Len(OnDisk(root))) :
        f \in {g \in DOMAIN disk :
                 /\ Len(g) > Len(OnDisk(root))
                 /\ Take(g, Len(OnDisk(root))) = OnDisk(root)
                 /\ g[Len(g)] \in TxtNames}}

gather_text_files(root, disk) == SortPaths(rglob(root, disk))

relative_to(path, root) == Drop(path, Len(root))

\* root.exists()
Exists(root, disk) ==
    \/ OnDisk(root) \in {Cwd, PagesDir, PagesDir \o <<"sub">>}
    \/ OnDisk(root) \in DOMAIN disk

\* open(..., "w"): the file is created or truncated
Truncated(disk, path) ==
    [f \in DOMAIN disk \cup {OnDisk(path)} |->
        IF f = OnDisk(path) THEN "" ELSE disk[f]]

\* what read_text returns: a stored file's content; for the file being
\* written, nothing or a part of it, as much as was flushed so far
ReadTexts(path, disk, output_path) ==
    IF OnDisk(path) = OnDisk(output_path) THEN {"", "PARTIAL"}
    ELSE {disk[OnDisk(path)]}

CombineInit ==
    /\ c_input_dir \in InputDirs
    /\ c_output_file \in OutputFiles
    /\ c_disk \in Disks
    /\ c_pc = "main"
    /\ c_todo = <<>> /\ c_out = <<>> /\ c_count = 0

\* lines 42-44
CombineUsageError ==
    /\ c_pc = "main"
    /\ ~Exists(c_input_dir, c_disk)
    /\ c_pc' = "exit2"
    /\ UNCHANGED <<c_input_dir, c_output_file, c_disk, c_todo, c_out,
                   c_count, crawlVars, normVars, allowVars, extractVars>>

\* lines 46-50
CombineOpen ==
    /\ c_pc = "main"
    /\ Exists(c_input_dir, c_disk)
    /\ c_disk' = Truncated(c_disk, c_output_file)
    /\ c_count' = 0
    /\ c_pc' = "gather"
    /\ UNCHANGED <<c_input_dir, c_output_file, c_todo, c_out, crawlVars,
                   normVars, allowVars, extractVars>>

\* line 51, first iteration: sorted() lists the directory
CombineGather ==
    /\ c_pc = "gather"
    /\ c_todo' = gather_text_files(c_input_dir, c_disk)
    /\ c_pc' = "loop"
    /\ UNCHANGED <<c_input_dir, c_output_file, c_disk, c_out, c_count,
                   crawlVars, normVars, allowVars, extractVars>>

\* lines 52-53
CombineSkip ==
    /\ c_pc = "loop"
    /\ c_todo # <<>>
    /\ Head(c_todo) = c_output_file
    /\ c_todo' = Tail(c_todo)
    /\ UNCHANGED <<c_input_dir, c_output_file, c_disk, c_pc, c_out, c_count,
                   crawlVars, normVars, allowVars, extractVars>>

\* lines 54-57
CombineWrite ==
    /\ c_pc = "loop"
    /\ c_todo # <<>>
    /\ Head(c_todo) # c_output_file
    /\ \E text \in ReadTexts(Head(c_todo), c_disk, c_output_file) :
          c_out' = Append(c_out,
                          [source |-> relative_to(Head(c_todo), c_input_dir),
                           text |-> text])
    /\ c_count' = c_count + 1
    /\ c_todo' = Tail(c_todo)
    /\ UNCHANGED <<c_input_dir, c_output_file, c_disk, c_pc, crawlVars,
                   normVars, allowVars, extractVars>>

\* lines 59-60
CombineDone ==
    /\ c_pc = "loop"
    /\ c_todo = <<>>
    /\ c_pc' = "exit0"
    /\ UNCHANGED <<c_input_dir, c_output_file, c_disk, c_todo, c_out,
                   c_count, crawlVars, normVars, allowVars, extractVars>>

CombineNext ==
    \/ CombineUsageError \/ CombineOpen \/ CombineGather
    \/ CombineSkip \/ CombineWrite \/ CombineDone

InitCombine ==
    CombineInit /\ CrawlIdle /\ NormIdle /\ AllowIdle /\ ExtractIdle

SpecCombine == InitCombine /\ [][CombineNext]_vars

(***************************************************************************)
(* extract_text.py.  The link file is a sequence of lines; the output      *)
(* directory maps the path of each stored file, a tuple of parts, to its    *)
(* text.                                                                    *)
(***************************************************************************)
MaxLines == 3

Str_xa == S_http \o <<":", "/", "/", "x", "/", "a">>

\* lines a link file may hold: URLs, a URL with its page suffix, a directory
\* URL, the site root, a blank line, a line that is not a URL
LinePool ==
    {Str_xa, Str_xa \o <<".", "h">>, Str_xa \o <<"/", "b", "/">>,
     S_http \o <<":", "/", "/", "x", "/">>, <<" ">>, <<"x">>}

RECURSIVE LinkFiles(_)
LinkFiles(n) ==
    IF n = 0 THEN {<<>>}
    ELSE LinkFiles(n - 1)
           \cup {Append(f, l) :
                    f \in {g \in LinkFiles(n - 1) : Len(g) = n - 1},
                    l \in LinePool}

RECURSIVE LStrip(_, _)
LStrip(s, c) == IF Len(s) > 0 /\ s[1] = c THEN LStrip(Tail(s), c) ELSE s

\* str.strip(c)
Strip(s, c) == LStrip(RStrip(s, c), c)

\* lines 68-70
PathSegments(path) ==
    IF FilterNonEmpty(Split(Strip(path, "/"), "/")) = <<>>
    THEN << <<"i", "n", "d", "e", "x">> >>
    ELSE FilterNonEmpty(Split(Strip(path, "/"), "/"))

\* lines 72-76
TxtName(filename) ==
    (IF BeforeChar(filename, ".") = <<>> THEN <<"i", "n", "d", "e", "x">>
     ELSE BeforeChar(filename, ".")) \o <<".", "t", "x", "t">>

WithTxtName(segments) ==
    SubSeq(segments, 1, Len(segments) - 1)
      \o <<TxtName(segments[Len(segments)])>>

\* joinpath drops an empty part
NetlocPart(netloc) == IF netloc = <<>> THEN <<>> ELSE <<netloc>>

derive_output_path(base_dir, url) ==
    base_dir \o NetlocPart(urlsplit(url).netloc)
      \o WithTxtName(PathSegments(urlsplit(url).path))

OutputBase == << <<"p", "a", "g", "e", "s">> >>

\* derive_output_path on the URLs a link file of the model can hold
LinkUrls == {Strip(l, " ") : l \in LinePool} \ {<<>>}

OutputPathOf == [u \in LinkUrls |-> derive_output_path(OutputBase, u)]

\* urllib.request.Request(url) raises ValueError for a string without a
\* scheme ("unknown url type")
IsRequestable == [u \in LinkUrls |-> HasScheme(u)]

\* the except clause of fetch_html in extract_text.py
ExtractFetchCaught == {"URLError", "HTTPError", "UnicodeDecodeError"}

extract_fetch_html(ev) ==
    IF ExceptionOf(ev) = "none"
    THEN (IF ev = "ok" THEN "html" ELSE "empty")
    ELSE IF ExceptionOf(ev) \in ExtractFetchCaught THEN "empty"
    ELSE "raised"

\* extract_text: the page has text or has none
ExtractedTexts == {"", "text"}

ExtractInit ==
    /\ x_exists \in BOOLEAN
    /\ x_lines \in LinkFiles(MaxLines)
    /\ x_pc = "main"
    /\ x_rest = <<>> /\ x_url = <<>>
    /\ x_total = 0 /\ x_successes = 0
    /\ x_files = <<>>
    /\ x_status = "running"
    /\ x_attempted = <<>>

\* lines 115-118: the link file does not exist
ExtractNoLinkFile ==
    /\ x_pc = "main"
    /\ ~x_exists
    /\ x_status' = "exit1"
    /\ x_pc' = "exited"
    /\ UNCHANGED <<x_exists, x_lines, x_rest, x_url, x_total, x_successes,
                   x_files, x_attempted, crawlVars, normVars, allowVars,
                   combineVars>>

\* lines 115-124 and 33: the counters are set, read_links opens the file
ExtractOpen ==
    /\ x_pc = "main"
    /\ x_exists
    /\ x_rest' = x_lines
    /\ x_total' = 0 /\ x_successes' = 0
    /\ x_pc' = "for"
    /\ UNCHANGED <<x_exists, x_lines, x_url, x_files, x_status, x_attempted,
                   crawlVars, normVars, allowVars, combineVars>>

\* lines 34-37 and 124-126: the next line; a blank one is passed over
ReadLink ==
    /\ x_pc = "for"
    /\ x_rest # <<>>
    /\ x_rest' = Tail(x_rest)
    /\ IF Strip(Head(x_rest), " ") = <<>>
       THEN UNCHANGED <<x_url, x_total, x_pc>>
       ELSE /\ x_url' = Strip(Head(x_rest), " ")
            /\ x_total' = x_total + 1
            /\ x_pc' = "L127"
    /\ UNCHANGED <<x_exists, x_lines, x_successes, x_files, x_status,
                   x_attempted, crawlVars, normVars, allowVars, combineVars>>

\* lines 127-129: fetch_html; the empty string continues the loop, an
\* exception (ValueError of Request, or one the except clause does not
\* name) leaves main
ExtractFetch ==
    /\ x_pc = "L127"
    /\ x_attempted' = Append(x_attempted, x_url)
    /\ IF ~IsRequestable[x_url]
       THEN x_pc' = "raised"
       ELSE \E ev \in NetEvents :
               x_pc' = CASE extract_fetch_html(ev) = "html" -> "L131"
                         [] extract_fetch_html(ev) = "empty" -> "for"
                         [] OTHER -> "raised"
    /\ UNCHANGED <<x_exists, x_lines, x_rest, x_url, x_total, x_successes,
                   x_files, x_status, crawlVars, normVars, allowVars,
                   combineVars>>

\* lines 131-141: extract the text; none continues the loop, else the file
\* is written, the count of stored files goes up, and the tool sleeps
ExtractStore ==
    /\ x_pc = "L131"
    /\ \E text \in ExtractedTexts :
          IF text = ""
          THEN UNCHANGED <<x_files, x_successes>>
          ELSE /\ x_files' = (OutputPathOf[x_url] :> text) @@ x_files
               /\ x_successes' = x_successes + 1
    /\ x_pc' = "for"
    /\ UNCHANGED <<x_exists, x_lines, x_rest, x_url, x_total, x_status,
                   x_attempted, crawlVars, normVars, allowVars, combineVars>>

\* lines 143-144
ExtractDone ==
    /\ x_pc = "for"
    /\ x_rest = <<>>
    /\ x_status' = "exit0"
    /\ x_pc' = "exited"
    /\ UNCHANGED <<x_exists, x_lines, x_rest, x_url, x_total, x_successes,
                   x_files, x_attempted, crawlVars, normVars, allowVars,
                   combineVars>>

\* the exception leaves main: the interpreter prints a traceback
ExtractUncaught ==
    /\ x_pc = "raised"
    /\ x_status' = "traceback"
    /\ x_pc' = "exited"
    /\ UNCHANGED <<x_exists, x_lines, x_rest, x_url, x_total, x_successes,
                   x_files, x_attempted, crawlVars, normVars, allowVars,
                   combineVars>>

ExtractNext ==
    \/ ExtractNoLinkFile \/ ExtractOpen \/ ReadLink \/ ExtractFetch
    \/ ExtractStore \/ ExtractDone \/ ExtractUncaught

InitExtract ==
    ExtractInit /\ CrawlIdle /\ NormIdle /\ AllowIdle /\ CombineIdle

SpecExtract == InitExtract /\ [][ExtractNext]_vars

(***************************************************************************)
(* Properties of a crawl run                                               *)
(***************************************************************************)
Range(seq) == {seq[i] : i \in 1..Len(seq)}

IsPrefix(p, seq) == Len(p) <= Len(seq) /\ SubSeq(seq, 1, Len(p)) = p

\* the sink exists once main has opened the file: the lines flushed to it,
\* and the lines written to it (flushed or still buffered)
Flushed == IF pc = "main" THEN <<>> ELSE file

Written == IF pc = "main" THEN <<>> ELSE file \o buffer

\* breadth-first layers over the links found on successfully fetched pages:
\* the URLs of front are at distance k, those of seen are no farther
RECURSIVE Layers(_, _, _)
Layers(front, seen, k) ==
    IF front = {} THEN <<>>
    ELSE LET next == {e[2] : e \in {x \in edges : x[1] \in front}} \ seen
         IN  [u \in front |-> k] @@ Layers(next, seen \cup next, k + 1)

\* every URL linked from the seed with its depth, the shortest link distance
Depth == Layers({normalized_start}, {normalized_start}, 0)

\* C1: no URL is written to the sink more than once during a run: the lines
\* of the sink are pairwise distinct in every reachable state.
C1_NoDuplicateLines ==
    \A i, j \in 1..Len(Written) : i # j => Written[i] # Written[j]

\* a finished run in which two different pages linked to the same URL
C1_Witness ==
    /\ status = "exit0"
    /\ \E e1, e2 \in edges : e1[2] = e2[2] /\ e1[1] # e2[1]
    /\ Len(file) >= 3

\* C2: BFS layering. URLs are written to the sink in order of depth, every
\* URL shallower than a fetched URL was already in the sink when that URL
\* was dequeued and fetched, and URLs are dequeued in order of depth.
C2_BfsLayering ==
    LET d == Depth
    IN  /\ \A i, j \in 1..Len(Written) :
              i < j => d[Written[i]] <= d[Written[j]]
        /\ \A k \in 1..Len(fetched), i \in 1..Len(Written) :
              d[Written[i]] < d[fetched[k].url] => i <= fetched[k].at
        /\ \A k, l \in 1..Len(fetched) :
              k < l => d[fetched[k].url] <= d[fetched[l].url]

\* a finished run over three layers: two URLs at depth 1, and a URL at
\* depth 2 that was fetched
C2_Witness ==
    /\ status = "exit0"
    /\ LET d == Depth
       IN  /\ Cardinality({u \in discovered : d[u] = 1}) >= 2
           /\ \E k \in 1..Len(fetched) : d[fetched[k].url] = 2

\* C3: a fetch that returns the empty result never stops the crawl: once
\* the process has ended, every URL that was in the frontier at a failed
\* fetch has been dequeued and fetched.
C3_FailureKeepsFrontier ==
    pc = "exited" =>
        \A k \in 1..Len(fetched) :
            fetched[k].res = "empty" =>
                Range(fetched[k].pending)
                    \subseteq {fetched[m].url : m \in 1..Len(fetched)}

\* the start URLs the Scope Filter accepts, per exclude list
AllowedStarts ==
    [excl \in ExcludeLists |->
        {u \in UrlsWithin(0) :
            is_allowed(u, NormalizedBase(BasePrefixArg), excl)}]

StartRejected ==
    /\ pc \notin {"main", "crawl"}
    /\ normalized_start \notin AllowedStarts[excludes]

\* C4: when the Scope Filter rejects the normalized start URL, crawl()
\* raises before any fetch and before any write to the sink, and the
\* process exits with code 1 leaving the output file empty.
C4_ScopeViolation ==
    StartRejected =>
        /\ pc \in {"ValueError", "exited"}
        /\ pc = "exited" => status = "exit1"
        /\ fetched = <<>>
        /\ file = <<>> /\ buffer = <<>>
        /\ queue = <<>> /\ discovered = {}

\* a run that exited with code 1 on a rejected start URL
C4_Witness == StartRejected /\ status = "exit1"

\* C5: the delay runs after every fetched node, success or failure alike:
\* between two consecutive fetches there is exactly one delay.
C5_DelayAfterEveryFetch ==
    \A k \in 1..(Len(fetched) - 1) :
        Cardinality({i \in 1..Len(sleeps) : sleeps[i] = k}) = 1

\* C9 as claimed: at every moment the flushed lines of the sink are the URLs
\* of Discovered in discovery order, and at Done their number is the count
\* main prints.
C9_SinkIsDiscovered ==
    pc # "main" =>
        /\ file = found
        /\ Range(found) = discovered
        /\ status = "exit0" => collected = Len(file)

\* C9 as amended: the flushed lines are always a prefix of Discovered in
\* discovery order that lacks at most the one URL being recorded; they are
\* all of Discovered whenever the crawl is not between adding a URL to
\* Discovered and flushing it; at Done their number is the count printed.
C9_SinkIsProjection ==
    pc # "main" =>
        /\ IsPrefix(file, found)
        /\ Len(found) - Len(file) <= 1
        /\ Range(found) = discovered
        /\ Len(found) = Cardinality(discovered)
        /\ pc \notin {"L120", "L121", "L152", "L153", "L154"} => file = found
        /\ status = "exit0" => collected = Len(file)

\* a URL found on a page is in Discovered and not yet in the file
C9_Witness ==
    /\ pc = "L153"
    /\ Len(found) >= 3
    /\ absolute \in discovered
    /\ absolute \notin Range(file)

(***************************************************************************)
(* Properties of normalize_url and is_allowed                              *)
(***************************************************************************)
\* C6: normalize_url is idempotent: normalizing a canonical form again
\* returns it unchanged, for every URL string.
C6_Idempotent == n_pc = "twice" => n_twice = n_once

RootOf(parts) == parts.scheme \o <<":", "/", "/">> \o parts.netloc \o <<"/">>

\* C7: the canonical form has no fragment; for an http URL with a host and
\* no query, a path that is exactly "/" keeps its slash and a deeper path
\* ending in "/" loses it.
C7_CanonicalForm ==
    n_pc \in {"once", "twice"} =>
        LET parts == urlsplit(n_url) IN
        /\ "#" \notin Range(n_once)
        /\ (parts.scheme = S_http /\ parts.netloc # <<>> /\ parts.query = <<>>)
             => /\ parts.path = <<"/">> => n_once = RootOf(parts)
                /\ (Len(parts.path) > 1 /\ EndsWith(parts.path, <<"/">>))
                     => ~EndsWith(n_once, <<"/">>)

PathRemainder(url, base) ==
    LET path == urlsplit(url).path
        skip == Len(urlsplit(base).path)
    IN  [i \in 1..(IF Len(path) > skip THEN Len(path) - skip ELSE 0)
           |-> path[skip + i]]

Slashed(entry) ==
    IF entry # <<>> /\ entry[1] = "/" THEN entry ELSE <<"/">> \o entry

\* C8: is_allowed returns true exactly when the URL has the base as a
\* literal string prefix and the rest of its path after the base's path
\* starts with no exclude entry, each entry given a leading "/" if it lacks
\* one; the four examples of the specification come out as stated.
C8_IsAllowedMeaning ==
    a_pc = "done" =>
        /\ a_res = (/\ IsPrefix(a_base, a_url)
                    /\ \A i \in 1..Len(a_excl) :
                          ~IsPrefix(Slashed(a_excl[i]),
                                    PathRemainder(a_url, a_base)))
        /\ (a_base = Str_xd /\ a_excl = << <<"/", "r">> >>)
             => /\ a_url = Str_xd \o <<"/", "r", "/", "z">> => ~a_res
                /\ a_url = Str_xd \o <<"/", "g">> => a_res
                /\ a_url = Str_xd \o <<"-", "i">> => a_res
        /\ (a_base = S_http \o <<":", "/", "/", "x", "/", "a">>
              /\ a_url = S_http \o <<":", "/", "/", "x", "/", "b">>)
             => ~a_res

C8_Witness ==
    /\ a_pc = "done"
    /\ a_base = Str_xd
    /\ a_excl = << <<"r">> >>
    /\ a_url = Str_xd \o <<"/", "r", "/", "z">>
    /\ ~a_res

(***************************************************************************)
(* Properties of the combine tool                                          *)
(***************************************************************************)
\* the .txt files below the input directory other than the output file,
\* as paths relative to the input directory, sorted
ExpectedSources ==
    SortPaths({Drop(f, Len(OnDisk(c_input_dir))) :
        f \in {g \in DOMAIN c_disk :
                 /\ Len(g) > Len(OnDisk(c_input_dir))
                 /\ Take(g, Len(OnDisk(c_input_dir))) = OnDisk(c_input_dir)
                 /\ g[Len(g)] \in TxtNames
                 /\ g # OnDisk(c_output_file)}})

\* C10: the combine tool writes one marker, content and blank line per
\* .txt file below the input directory, in sorted relative-path order, and
\* never includes the output file itself, however the two paths are spelled.
C10_CombinedOutput ==
    c_pc = "exit0" =>
        /\ Len(c_out) = Len(ExpectedSources)
        /\ \A i \in 1..Len(c_out) :
              /\ c_out[i].source = ExpectedSources[i]
              /\ c_out[i].text = c_disk[OnDisk(c_input_dir) \o c_out[i].source]
        /\ \A i \in 1..Len(c_out) :
              OnDisk(c_input_dir) \o c_out[i].source # OnDisk(c_output_file)

(***************************************************************************)
(* Further properties of a crawl run                                       *)
(***************************************************************************)
\* the Scope Filter as the specification words it
InScope(url, nb, excl) ==
    /\ IsPrefix(nb, url)
    /\ \A i \in 1..Len(excl) :
          ~IsPrefix(Slashed(excl[i]), PathRemainder(url, nb))

InScopeTable ==
    [excl \in ExcludeLists |->
        {u \in UrlsWithin(MaxUrls) :
            InScope(u, NormalizedBase(BasePrefixArg), excl)}]

FetchedUrls == [k \in 1..Len(fetched) |-> fetched[k].url]

\* C12: every URL in the Frontier, in Visited and in Discovered, every URL
\* handed to the Fetcher and every line of the sink starts with the
\* normalized base prefix and is accepted by the Scope Filter.
C12_NoOutOfScope ==
    pc # "main" =>
        \A u \in Range(queue) \cup visited \cup discovered
                   \cup Range(FetchedUrls) \cup Range(Written) :
            /\ IsPrefix(normalized_base, u)
            /\ u \in InScopeTable[excludes]

C12_Witness ==
    /\ pc = "L143"
    /\ Len(found) >= 2
    /\ absolute # <<>>
    /\ absolute \notin InScopeTable[excludes]
    /\ Range(queue) # {}

NoRepeats(seq) == \A i, j \in 1..Len(seq) : i # j => seq[i] # seq[j]

C14_VisitedOnce ==
    /\ [](/\ visited \subseteq discovered
          /\ NoRepeats(FetchedUrls)
          /\ Range(FetchedUrls) \subseteq visited
          /\ (pc = "loop" /\ queue # <<>>) => Head(queue) \notin visited)
    /\ [][visited \subseteq visited' /\ discovered \subseteq discovered']_vars

C14_Witness ==
    /\ pc = "L143"
    /\ absolute \in visited
    /\ absolute # current
    /\ <<current, absolute>> \in edges
    /\ Len(fetched) >= 3

\* C15: every way a fetch can fail is turned by fetch_html into the empty
\* result: no fetch raises out of crawl() and none ends the process.
C15_FailureIsEmptyResult ==
    /\ \A k \in 1..Len(fetched) : fetched[k].res \in {"html", "empty"}
    /\ pc # "TimeoutError"
    /\ status # "traceback"

\* standard relative-URL resolution of href with the page itself as base,
\* in canonical form
StandardResolveTable ==
    [u \in UrlsWithin(MaxUrls - 1) |->
        [h \in HrefPool |-> normalize_url(urljoin(u, h))]]

\* C16: the absolute URL obtained for an href of the fetched page u is the
\* standard resolution of the href with u itself as the base.
C16_ResolvedAgainstPage ==
    [][(pc = "L143" /\ hrefs' # hrefs) =>
          \E h \in hrefs \ hrefs' :
              absolute' = StandardResolveTable[current][h]]_vars

\* crawl() has returned with the Frontier empty, Visited equal to
\* Discovered, every URL written to the sink fetched exactly once, and the
\* returned set being the seed together with the targets of the links that
\* passed the checks on the successfully fetched pages of that set
Done ==
    /\ status = "exit0"
    /\ queue = <<>>
    /\ visited = discovered
    /\ Range(file) = discovered
    /\ NoRepeats(FetchedUrls)
    /\ Range(FetchedUrls) = Range(file)
    /\ discovered = {normalized_start} \cup {e[2] : e \in edges}
    /\ \A e \in edges :
          \E k \in 1..Len(fetched) :
             fetched[k].url = e[1] /\ fetched[k].res = "html"

\* C17: a crawl whose start URL is in scope terminates: it reaches Done,
\* where Visited equals Discovered and the returned set is complete.
C17_ReachesDone == <>(Done \/ status = "exit1")

\* C18 as stated: in every reachable state the URLs fetched so far are a
\* prefix of the lines written to the sink and the Frontier is exactly the
\* rest of those lines, in the same order.
C18_FrontierIsSuffix ==
    pc # "main" =>
        /\ IsPrefix(FetchedUrls, Written)
        /\ FetchedUrls \o queue = Written

\* the URL that was dequeued (line 125) and is not yet fetched (line 136)
InHand == IF pc = "L136" THEN <<current>> ELSE <<>>

\* C18, amended: the URLs fetched so far are always a prefix of the lines
\* written to the sink, and the fetched URLs, the URL in hand and the
\* Frontier together are the URLs enqueued so far, in discovery order.
\* The Frontier is exactly the rest of the written lines at the loop head,
\* in the href loop outside lines 152-153 and at the end of the run; in
\* between it differs by the one URL in hand (lines 125-136) or by the one
\* URL enqueued and not yet written (lines 118-120, 152-153).
C18_FetchOrder ==
    pc # "main" =>
        /\ IsPrefix(FetchedUrls, Written)
        /\ FetchedUrls \o InHand \o queue
             = (CASE pc = "L119" -> <<normalized_start>>
                  [] pc = "L152" -> SubSeq(found, 1, Len(found) - 1)
                  [] OTHER -> found)
        /\ pc \notin {"L119", "L120", "L136", "L152", "L153"}
             => FetchedUrls \o queue = Written

C18_Witness ==
    /\ pc = "L143"
    /\ Len(fetched) >= 2
    /\ Len(queue) >= 2
    /\ FetchedUrls \o queue = Written

(***************************************************************************)
(* Properties of the extraction tool                                       *)
(***************************************************************************)
RECURSIVE NonEmptyLines(_)
NonEmptyLines(lines) ==
    IF lines = <<>> THEN <<>>
    ELSE IF Strip(Head(lines), " ") = <<>> THEN NonEmptyLines(Tail(lines))
    ELSE <<Strip(Head(lines), " ")>> \o NonEmptyLines(Tail(lines))

\* C11: when the link file exists, every non-empty line is processed, in
\* order, whatever happens to the others: the run ends with its final line,
\* having given every URL to the Fetcher, and reports processed = number of
\* non-empty lines and stored = number of text files in the output
\* directory.
C11_EveryLineProcessed ==
    (x_pc = "exited" /\ x_exists) =>
        /\ x_status = "exit0"
        /\ x_attempted = NonEmptyLines(x_lines)
        /\ x_total = Len(NonEmptyLines(x_lines))
        /\ x_successes = Cardinality(DOMAIN x_files)

=============================================================================
